---- MODULE Spec2Model ----
(***************************************************************************)
(* Model of the gluonpilot control module (Firmware/rtos_pilot/control.c): *)
(* the control task's cycle, the three control laws, the shared final      *)
(* stage and the output mixer.                                             *)
(*                                                                         *)
(* Units.  Pulse widths and axis commands are integers (microseconds), as  *)
(* in the source.  Angles (double, radians in the source) are integers in  *)
(* units of 1/RadUnit radian.                                              *)
(***************************************************************************)
EXTENDS Integers, Sequences, FiniteSets, TLC

VARIABLES
    config,          \* config.control.* (configuration.h), incl. the PID structs
    ppm,             \* ppm.channel[0..7] as last read by the control task
    sensor_data,     \* sensor_data.* as last read by the control task
    navigation_data, \* navigation_data.desired_heading_rad as last read
    control_state,   \* struct ControlState control_state
    lastMode,        \* control_task's local lastMode
    servo_out,       \* int servo_out[6]
    elevator_out, aileron_out, yaw_out, motor_out,  \* the axis commands
    pc,              \* position of control_task
    build,           \* the compile-time switches (ENABLE_QUADROCOPTER)
    deadline_missed, \* whether the wake-up time of the current cycle had passed
                     \* when vTaskDelayUntil() was called (the cycle before overran)
    servo_us,        \* the servo_set_us(i, v) calls of the current cycle, in order
    law_log,         \* the control-law functions entered in the current cycle
    pid_log,         \* the PID updates of the current cycle, with their error argument
    mix_calls,       \* number of control_mix_out passes in the current cycle
    observed,        \* what an observer of the cycles recalls: the mode of the
                     \* previous cycle ("NONE" before the first) and the height
                     \* at the first cycle of the current run of AUTOPILOT cycles
    i2c              \* the I2C driver (hmc5843.c): the transaction in progress,
                     \* the position in it, and the I2C1 peripheral's behaviour

vars == << config, ppm, sensor_data, navigation_data, control_state, lastMode,
           servo_out, elevator_out, aileron_out, yaw_out, motor_out, pc, build,
           deadline_missed, servo_us, law_log, pid_log, mix_calls, observed,
           i2c >>

-----------------------------------------------------------------------------
(* Helpers for C arithmetic *)

\* C's integer division truncates toward zero (TLA+'s \div floors)
CDiv(a, b) == IF a >= 0 THEN a \div b ELSE -((-a) \div b)

Servos == 0..5
Modes == {"MANUAL", "STABILIZED", "AUTOPILOT"}
Channels == 0..7

ZeroServos == [i \in Servos |-> 0]

Abs(x) == IF x < 0 THEN -x ELSE x

\* angles: units per radian
RadUnit == 100000
\* #define PI 3.14159, in angle units
PI == 314159
\* PID gains are held in hundredths
GainUnit == 100
\* (int)x of a double x held in angle units: truncation toward zero
TruncToInt(x) == CDiv(x, RadUnit)

-----------------------------------------------------------------------------
(* control_mix_out *)

\* Each case of the switch(config.control.servo_mix) of control_mix_out gives
\* servo_out[] before the clamp loop.  so is servo_out[] on entry: channels the
\* case does not assign keep the value they hold.

\* DELTA_PLUS with the aileron term of servo 2 taken with the other sign
MixDeltaPlusAileronFlipped(cfg, so, aileron, elevator, yaw, motor) ==
    LET n == cfg.servo_neutral
    IN  [so EXCEPT
           ![0] = IF cfg.reverse_servo1 THEN aileron + elevator + n[0]
                                        ELSE -aileron - elevator + n[0],
           ![1] = IF cfg.reverse_servo2 THEN -aileron - elevator + n[1]
                                        ELSE aileron + elevator + n[1],
           ![3] = IF cfg.reverse_servo4 THEN -motor + n[3]
                                        ELSE motor + n[3]]

\* case DELTA_PLUS
MixDeltaPlus(cfg, so, aileron, elevator, yaw, motor) ==
    LET n == cfg.servo_neutral
    IN  [so EXCEPT
           ![0] = IF cfg.reverse_servo1 THEN aileron + elevator + n[0]
                                        ELSE -aileron - elevator + n[0],
           ![1] = IF cfg.reverse_servo2 THEN aileron - elevator + n[1]
                                        ELSE -aileron + elevator + n[1],
           ![3] = IF cfg.reverse_servo4 THEN -motor + n[3]
                                        ELSE motor + n[3]]

\* DELTA_MIN with the reversed branch of servo 2 copied from DELTA_PLUS
MixDeltaMinCopied(cfg, so, aileron, elevator, yaw, motor) ==
    LET n == cfg.servo_neutral
    IN  [so EXCEPT
           ![0] = IF cfg.reverse_servo1 THEN aileron - elevator + n[0]
                                        ELSE -aileron + elevator + n[0],
           ![1] = IF cfg.reverse_servo2 THEN aileron - elevator + n[1]
                                        ELSE -aileron - elevator + n[1],
           ![3] = IF cfg.reverse_servo4 THEN -motor + n[3]
                                        ELSE motor + n[3]]

\* case DELTA_MIN
MixDeltaMin(cfg, so, aileron, elevator, yaw, motor) ==
    LET n == cfg.servo_neutral
    IN  [so EXCEPT
           ![0] = IF cfg.reverse_servo1 THEN aileron - elevator + n[0]
                                        ELSE -aileron + elevator + n[0],
           ![1] = IF cfg.reverse_servo2 THEN aileron + elevator + n[1]
                                        ELSE -aileron - elevator + n[1],
           ![3] = IF cfg.reverse_servo4 THEN -motor + n[3]
                                        ELSE motor + n[3]]

\* QUADROCOPTER with the divisions rounding down instead of toward zero
MixQuadrocopterFloor(cfg, so, aileron, elevator, yaw, motor) ==
    LET n == cfg.servo_neutral
    IN  [so EXCEPT
           ![0] = motor + (aileron \div 5) + (yaw \div 5) + n[0],
           ![1] = motor + (elevator \div 5) - (yaw \div 5) + n[1],
           ![2] = motor - (aileron \div 5) + (yaw \div 5) + n[2],
           ![3] = motor - (elevator \div 5) - (yaw \div 5) + n[3]]

\* case QUADROCOPTER
MixQuadrocopter(cfg, so, aileron, elevator, yaw, motor) ==
    LET n == cfg.servo_neutral
    IN  [so EXCEPT
           ![0] = motor + CDiv(aileron, 5) + CDiv(yaw, 5) + n[0],
           ![1] = motor + CDiv(elevator, 5) - CDiv(yaw, 5) + n[1],
           ![2] = motor - CDiv(aileron, 5) + CDiv(yaw, 5) + n[2],
           ![3] = motor - CDiv(elevator, 5) - CDiv(yaw, 5) + n[3]]

\* default case with both ailerons moving the same way
MixAileronSameSign(cfg, so, aileron, elevator, yaw, motor) ==
    LET n == cfg.servo_neutral
    IN  [so EXCEPT
           ![0] = IF cfg.reverse_servo1 THEN -aileron + n[0]
                                        ELSE aileron + n[0],
           ![1] = IF cfg.reverse_servo2 THEN -aileron + n[1]
                                        ELSE aileron + n[1],
           ![2] = IF cfg.reverse_servo3 THEN -elevator + n[2]
                                        ELSE elevator + n[2],
           ![3] = IF cfg.reverse_servo4 THEN -motor + n[3]
                                        ELSE motor + n[3]]

\* default case that also moves servo_out[4], by adding to what it holds
MixAileronIncrement(cfg, so, aileron, elevator, yaw, motor) ==
    LET n == cfg.servo_neutral
    IN  [so EXCEPT
           ![0] = IF cfg.reverse_servo1 THEN -aileron + n[0]
                                        ELSE aileron + n[0],
           ![1] = IF cfg.reverse_servo2 THEN aileron + n[1]
                                        ELSE -aileron + n[1],
           ![2] = IF cfg.reverse_servo3 THEN -elevator + n[2]
                                        ELSE elevator + n[2],
           ![3] = IF cfg.reverse_servo4 THEN -motor + n[3]
                                        ELSE motor + n[3],
           ![4] = IF cfg.reverse_servo5 THEN so[4] + yaw
                                        ELSE so[4] - yaw]

\* default (aileron).  The assignment of servo_out[4] from yaw_out follows the
\* break and is never executed.
MixAileron(cfg, so, aileron, elevator, yaw, motor) ==
    LET n == cfg.servo_neutral
    IN  [so EXCEPT
           ![0] = IF cfg.reverse_servo1 THEN -aileron + n[0]
                                        ELSE aileron + n[0],
           ![1] = IF cfg.reverse_servo2 THEN aileron + n[1]
                                        ELSE -aileron + n[1],
           ![2] = IF cfg.reverse_servo3 THEN -elevator + n[2]
                                        ELSE elevator + n[2],
           ![3] = IF cfg.reverse_servo4 THEN -motor + n[3]
                                        ELSE motor + n[3]]

\* switch(config.control.servo_mix); aileron_out_left = aileron_out_right =
\* aileron_out (no differential)
MixSwitch(cfg, so, aileron, elevator, yaw, motor) ==
    CASE cfg.servo_mix = "DELTA_PLUS" ->
            MixDeltaPlus(cfg, so, aileron, elevator, yaw, motor)
      [] cfg.servo_mix = "DELTA_MIN" ->
            MixDeltaMin(cfg, so, aileron, elevator, yaw, motor)
      [] cfg.servo_mix = "QUADROCOPTER" ->
            MixQuadrocopter(cfg, so, aileron, elevator, yaw, motor)
      [] OTHER ->
            MixAileron(cfg, so, aileron, elevator, yaw, motor)

\* the clamp loop without its lower-limit test
ClampServoNoMin(cfg, v, i) ==
    IF v > cfg.servo_max[i] THEN cfg.servo_max[i] ELSE v

\* one iteration of the clamp loop of control_mix_out
ClampServo(cfg, v, i) ==
    LET a == IF v > cfg.servo_max[i] THEN cfg.servo_max[i] ELSE v
    IN  IF a < cfg.servo_min[i] THEN cfg.servo_min[i] ELSE a

\* the servo_set_us(i, servo_out[i]) calls of one control_mix_out pass
ServoWrites(so) == [k \in 1..6 |-> << k - 1, so[k - 1] >>]

\* control_mix_out(): mixes the axis commands into servo_out[], clamps every
\* channel and hands it to the servo driver.  g holds the globals.
control_mix_out(g) ==
    LET mixed == MixSwitch(g.config, g.servo_out, g.aileron_out, g.elevator_out,
                           g.yaw_out, g.motor_out)
        so == [i \in Servos |-> ClampServo(g.config, mixed[i], i)]
    IN  [g EXCEPT !.servo_out = so,
                  !.servo_us = @ \o ServoWrites(so),
                  !.mix_calls = @ + 1]

-----------------------------------------------------------------------------
(* pid/pid.h *)

\* pid_update_only_p(&pid, error, dt): p_gain * error, no state change
pid_update_only_p(pid, error, hz) == CDiv(pid.p_gain * error, GainUnit)

\* pid_update(&pid, error, dt) with dt = 1/hz: the full PID.
\* Result: the output and the PID struct after the call.
pid_update(pid, error, hz) ==
    LET integral   == pid.integral + CDiv(error, hz)
        derivative == (error - pid.previous_error) * hz
    IN  [out |-> CDiv(pid.p_gain * error, GainUnit)
                 + CDiv(pid.i_gain * integral, GainUnit)
                 + CDiv(pid.d_gain * derivative, GainUnit),
         pid |-> [pid EXCEPT !.integral = integral, !.previous_error = error]]

LogPid(g, name, error) ==
    [g EXCEPT !.pid_log = Append(@, [pid |-> name, error |-> error])]

-----------------------------------------------------------------------------
(* the control laws *)

\* ppm.channel[ch] - config.control.channel_neutral[ch]
Stick(g, ch) == g.ppm[ch] - g.config.channel_neutral[ch]

\* the limiter without its lower test
LimitAngleUpperOnly(x, max) == IF x > max THEN max ELSE x

\* the "keep pitch & roll within limits" part of control_desired_to_servos
LimitAngle(x, max) ==
    IF x > max THEN max
    ELSE IF x < -max THEN -max
    ELSE x

\* control_desired_to_servos(dt), dt = 1/hz
control_desired_to_servos(g, hz) ==
    LET c  == g.config
        sd == g.sensor_data
        desired_pitch == LimitAngle(g.control_state.desired_pitch, c.max_pitch)
        desired_roll  == LimitAngle(g.control_state.desired_roll, c.max_roll)
        g1 == [g EXCEPT !.control_state.desired_pitch = desired_pitch,
                        !.control_state.desired_roll = desired_roll]
        epitch == desired_pitch - sd.pitch
        eroll  == desired_roll - sd.roll
        g2 == LogPid(LogPid(g1, "pid_pitch2elevator", epitch),
                     "pid_roll2aileron", eroll)
        \* #ifdef ENABLE_QUADROCOPTER
        quad_elevator == pid_update_only_p(c.pid_pitch2elevator, epitch, hz)
                         - CDiv(sd.q * c.pid_pitch2elevator.d_gain, GainUnit)
        quad_aileron  == pid_update_only_p(c.pid_roll2aileron, eroll, hz)
                         - CDiv(sd.p * c.pid_roll2aileron.d_gain, GainUnit)
        quad_yaw      == g.yaw_out
                         - CDiv(sd.r * c.pid_heading2roll.d_gain * 630,
                                GainUnit * RadUnit)
        \* #else
        pe == pid_update(c.pid_pitch2elevator, epitch, hz)
        pa == pid_update(c.pid_roll2aileron, eroll, hz)
        \* #endif
        elevator_out_radians == IF g.build.ENABLE_QUADROCOPTER THEN quad_elevator
                                                               ELSE pe.out
        aileron_out_radians  == IF g.build.ENABLE_QUADROCOPTER THEN quad_aileron
                                                               ELSE pa.out
        g3 == IF g.build.ENABLE_QUADROCOPTER
                 THEN [g2 EXCEPT !.yaw_out = quad_yaw]
                 ELSE [g2 EXCEPT !.config.pid_pitch2elevator = pe.pid,
                                 !.config.pid_roll2aileron = pa.pid]
        g4 == [g3 EXCEPT !.motor_out = Stick(g, c.channel_motor),
                         !.yaw_out = Stick(g, c.channel_yaw),
                         !.elevator_out = CDiv(elevator_out_radians * 630, RadUnit),
                         !.aileron_out = CDiv(aileron_out_radians * 630, RadUnit)]
    IN  control_mix_out(g4)

\* (double)((int)ppm.channel[ch] - channel_neutral[ch]) / 500.0 * max
StickAngle(g, ch, max) == CDiv(Stick(g, ch) * max, 500)

\* (control_state.desired_height - sensor_data.pressure_height) / 20.0 * max_pitch
HeightHoldPitch(g) ==
    CDiv((g.control_state.desired_height - g.sensor_data.pressure_height)
         * g.config.max_pitch, 20)

\* control_manual() that leaves yaw_out as the previous cycle set it
control_manual_stale_yaw(g) ==
    LET c == g.config
    IN  control_mix_out(
          [g EXCEPT !.law_log = Append(@, "control_manual"),
                    !.elevator_out = Stick(g, c.channel_pitch),
                    !.aileron_out = Stick(g, c.channel_roll),
                    !.motor_out = Stick(g, c.channel_motor)])

\* control_manual() returning before it mixes
control_manual_unmixed(g) ==
    LET c == g.config
    IN  [g EXCEPT !.law_log = Append(@, "control_manual"),
                  !.elevator_out = Stick(g, c.channel_pitch),
                  !.aileron_out = Stick(g, c.channel_roll),
                  !.motor_out = Stick(g, c.channel_motor),
                  !.yaw_out = Stick(g, c.channel_yaw)]

\* control_manual()
control_manual(g) ==
    LET c == g.config
    IN  control_mix_out(
          [g EXCEPT !.law_log = Append(@, "control_manual"),
                    !.elevator_out = Stick(g, c.channel_pitch),
                    !.aileron_out = Stick(g, c.channel_roll),
                    !.motor_out = Stick(g, c.channel_motor),
                    !.yaw_out = Stick(g, c.channel_yaw)])

\* control_stabilized(dt, altitude_hold), dt = 1/hz
control_stabilized(g, hz, altitude_hold) ==
    LET c == g.config
        stick_pitch == StickAngle(g, c.channel_pitch, c.max_pitch)
        g1 == [g EXCEPT !.law_log = Append(@, "control_stabilized"),
                        !.control_state.desired_roll =
                            StickAngle(g, c.channel_roll, c.max_roll)]
        g2 == IF altitude_hold
                 THEN \* abs() takes an int: the double is truncated first
                      IF Abs(TruncToInt(g.control_state.desired_pitch)) * RadUnit * 5
                            > c.max_pitch
                         THEN [g1 EXCEPT !.control_state.desired_pitch = stick_pitch,
                                         !.control_state.desired_height =
                                             g.sensor_data.pressure_height]
                         ELSE [g1 EXCEPT !.control_state.desired_pitch =
                                             HeightHoldPitch(g)]
                 ELSE [g1 EXCEPT !.control_state.desired_pitch = stick_pitch]
    IN  control_desired_to_servos(g2, hz)

\* the heading error taken as it is, without choosing the shortest turn
HeadingErrorUnwrapped(desired, heading) == desired - heading

\* the heading error of control_navigate after "choose shortest turn-direction"
HeadingError(desired, heading) ==
    LET heading_error_rad == desired - heading
    IN  IF heading_error_rad >= PI THEN heading_error_rad - 2 * PI
        ELSE IF heading_error_rad <= -PI THEN heading_error_rad + 2 * PI
        ELSE heading_error_rad

\* the scaling by speed/20 without its limits 0.66 and 1.5
SpeedDependNavUnlimited(roll, speed_cms) ==
    LET q == CDiv(roll, 2000)
    IN  q * speed_cms + CDiv((roll - q * 2000) * speed_cms, 2000)

\* the speed-dependent scaling of desired_roll in control_navigate;
\* speed_cms is sensor_data.gps.speed_ms in cm/s
SpeedDependNav(roll, speed_cms) ==
    IF speed_cms > 3000 THEN CDiv(roll * 3, 2)          \* speed/20 > 1.5:  *= 1.5
    ELSE IF speed_cms < 1320 THEN CDiv(roll * 66, 100)  \* speed/20 < 0.66: *= 0.66
    ELSE \* *= speed/20: roll * speed_cms / 2000, the whole multiples of 2000
         \* in roll taken apart so that the product stays in range
         LET q == CDiv(roll, 2000)
         IN  q * speed_cms + CDiv((roll - q * 2000) * speed_cms, 2000)

\* control_navigate(dt), dt = 1/hz
control_navigate(g, hz) ==
    LET c == g.config
        heading_error_rad == HeadingError(g.navigation_data.desired_heading_rad,
                                          g.sensor_data.gps.heading_rad)
        roll == pid_update_only_p(c.pid_heading2roll, heading_error_rad, hz)
        g1 == LogPid([g EXCEPT !.law_log = Append(@, "control_navigate")],
                     "pid_heading2roll", heading_error_rad)
        g2 == [g1 EXCEPT !.control_state.desired_roll =
                             SpeedDependNav(roll, g.sensor_data.gps.speed_ms),
                         !.control_state.desired_pitch = HeightHoldPitch(g)]
    IN  control_desired_to_servos(g2, hz)

\* control_init() that does not store the mixed outputs as servo neutrals
control_init_neutrals_unstored(g) ==
    IF g.config.manual_trim
    THEN LET c1 == [g.config EXCEPT
                      !.servo_neutral = [i \in Servos |->
                                            IF i < 3 THEN 1500 ELSE @[i]],
                      !.channel_neutral = g.ppm]
             g1 == [g EXCEPT !.config = c1,
                             !.elevator_out = c1.channel_neutral[c1.channel_pitch] - 1500,
                             !.aileron_out = c1.channel_neutral[c1.channel_roll] - 1500,
                             !.yaw_out = c1.channel_neutral[c1.channel_yaw] - 1500,
                             !.motor_out = c1.channel_neutral[c1.channel_motor] - 1500]
         IN  control_mix_out(g1)
    ELSE g

\* control_init() that trims whatever the manual_trim flag says
control_init_unconditional(g) ==
    LET c1 == [g.config EXCEPT
                 !.servo_neutral = [i \in Servos |->
                                       IF i < 3 THEN 1500 ELSE @[i]],
                 !.channel_neutral = g.ppm]
        g1 == [g EXCEPT !.config = c1,
                        !.elevator_out = c1.channel_neutral[c1.channel_pitch] - 1500,
                        !.aileron_out = c1.channel_neutral[c1.channel_roll] - 1500,
                        !.yaw_out = c1.channel_neutral[c1.channel_yaw] - 1500,
                        !.motor_out = c1.channel_neutral[c1.channel_motor] - 1500]
        g2 == control_mix_out(g1)
    IN  [g2 EXCEPT !.config.servo_neutral = g2.servo_out]

\* control_init()
control_init(g) ==
    IF g.config.manual_trim
    THEN LET c1 == [g.config EXCEPT
                      !.servo_neutral = [i \in Servos |->
                                            IF i < 3 THEN 1500 ELSE @[i]],
                      !.channel_neutral = g.ppm]
             g1 == [g EXCEPT !.config = c1,
                             !.elevator_out = c1.channel_neutral[c1.channel_pitch] - 1500,
                             !.aileron_out = c1.channel_neutral[c1.channel_roll] - 1500,
                             !.yaw_out = c1.channel_neutral[c1.channel_yaw] - 1500,
                             !.motor_out = c1.channel_neutral[c1.channel_motor] - 1500]
             g2 == control_mix_out(g1)
         IN  [g2 EXCEPT !.config.servo_neutral = g2.servo_out]
    ELSE g

-----------------------------------------------------------------------------
(* configurations and inputs the model is run on *)

Pid(p, i, d) == [p_gain |-> p, i_gain |-> i, d_gain |-> d,
                 integral |-> 0, previous_error |-> 0]

\* a configuration with neutral channels at 1500 us, 0.5 rad max roll and
\* 0.25 rad max pitch
Config(mix, rev, neutral, min, max, trim) ==
    [servo_mix |-> mix,
     reverse_servo1 |-> rev[1], reverse_servo2 |-> rev[2],
     reverse_servo3 |-> rev[3], reverse_servo4 |-> rev[4],
     reverse_servo5 |-> rev[5],
     servo_neutral |-> [i \in Servos |-> neutral],
     servo_min |-> [i \in Servos |-> min],
     servo_max |-> [i \in Servos |-> max],
     channel_neutral |-> [c \in Channels |-> 1500],
     channel_roll |-> 0, channel_pitch |-> 1, channel_motor |-> 2,
     channel_yaw |-> 3, channel_ap |-> 4,
     max_roll |-> 50000, max_pitch |-> 25000,
     manual_trim |-> trim,
     pid_heading2roll |-> Pid(300, 0, 45),
     pid_pitch2elevator |-> Pid(100, 100, 1),
     pid_roll2aileron |-> Pid(80, 0, 1)]

Topologies == {"AILERON", "DELTA_PLUS", "DELTA_MIN", "QUADROCOPTER"}

NoReverse  == [k \in 1..5 |-> FALSE]
AllReverse == [k \in 1..5 |-> TRUE]
Reversals  == { NoReverse, AllReverse,
                [k \in 1..5 |-> k % 2 = 1], [k \in 1..5 |-> k % 2 = 0] }

\* [min, max] travel limits: wide, narrow, and a misconfigured pair (min > max)
Limits == { << 1000, 2000 >>, << 1400, 1600 >>, << 1600, 1400 >> }

\* receiver frames: roll, pitch, motor, yaw, mode-select, and three spare channels
Frame(roll, pitch, motor, yaw, ap) ==
    [c \in Channels |->
        CASE c = 0 -> roll [] c = 1 -> pitch [] c = 2 -> motor
          [] c = 3 -> yaw  [] c = 4 -> ap    [] OTHER -> 1500]

\* stick positions: roll, pitch, motor, yaw
Centred == << 1500, 1500, 1200, 1500 >>     \* throttle low
Beyond  == << 2100, 800, 1500, 1400 >>      \* beyond the +-500 us half range
Partial == << 1700, 1400, 2000, 1600 >>

\* In the modes that run the PIDs the sticks are centred or beyond full throw,
\* so that the PID errors, and with them the integrators, range over few
\* values; any of the positions occurs in MANUAL.
Sticks == { Centred, Beyond }

\* Every mode-select value comes with a stick position, the two values that
\* select STABILIZED with one each.
PpmFrames ==
    { Frame(s[1], s[2], s[3], s[4], a) : s \in Sticks, a \in {1332, 1666} }
    \cup { Frame(Centred[1], Centred[2], Centred[3], Centred[4], 1333),
           Frame(Beyond[1], Beyond[2], Beyond[3], Beyond[4], 1665),
           Frame(Partial[1], Partial[2], Partial[3], Partial[4], 1666) }

\* the sticks as control_init finds them with manual trim
TrimSticks == { Centred, << 1500, 1500, 1000, 1520 >> }

Sensors(h, roll, pitch, p, q, r, heading, speed) ==
    [pressure_height |-> h, roll |-> roll, pitch |-> pitch,
     p |-> p, q |-> q, r |-> r,
     gps |-> [heading_rad |-> heading, speed_ms |-> speed]]

\* what a cycle reads besides the receiver: a sensor snapshot (heights in m,
\* angles and rates in angle units, speed in cm/s) and the desired heading
Flights ==
    { << Sensors(100, 0, 0, 0, 0, 0, 0, 2000), 0 >>,
      << Sensors(140, 0, -25000, 1000, -2000, 50000, -300000, 4000), 300000 >>,
      << Sensors(100, 50000, 25000, 0, 0, -3000, -200000, 500), 0 >> }

NoInput == [ppm |-> [c \in Channels |-> 0],
            sensor_data |-> Sensors(0, 0, 0, 0, 0, 0, 0, 0),
            navigation_data |-> [desired_heading_rad |-> 0]]

-----------------------------------------------------------------------------
(* the globals as one record, for the operators above *)

Globals ==
    [config |-> config, ppm |-> ppm, sensor_data |-> sensor_data,
     navigation_data |-> navigation_data, control_state |-> control_state,
     servo_out |-> servo_out, elevator_out |-> elevator_out,
     aileron_out |-> aileron_out, yaw_out |-> yaw_out, motor_out |-> motor_out,
     build |-> build, deadline_missed |-> deadline_missed,
     servo_us |-> servo_us, law_log |-> law_log,
     pid_log |-> pid_log, mix_calls |-> mix_calls, observed |-> observed,
     i2c |-> i2c]

Assign(g) ==
    /\ config' = g.config
    /\ ppm' = g.ppm
    /\ sensor_data' = g.sensor_data
    /\ navigation_data' = g.navigation_data
    /\ control_state' = g.control_state
    /\ servo_out' = g.servo_out
    /\ elevator_out' = g.elevator_out
    /\ aileron_out' = g.aileron_out
    /\ yaw_out' = g.yaw_out
    /\ motor_out' = g.motor_out
    /\ build' = g.build
    /\ deadline_missed' = g.deadline_missed
    /\ servo_us' = g.servo_us
    /\ law_log' = g.law_log
    /\ pid_log' = g.pid_log
    /\ mix_calls' = g.mix_calls
    /\ observed' = g.observed
    /\ i2c' = g.i2c

\* the I2C driver with no transaction in progress
I2CIdle == [fn |-> "none", todo |-> << >>, at |-> "idle", n |-> 0,
            stuck |-> {}, last |-> "none", returned |-> FALSE]

\* the globals before main() runs, with lastMode starting as AUTOPILOT
InitGlobalsLastAutopilot ==
    /\ ppm = NoInput.ppm
    /\ sensor_data = NoInput.sensor_data
    /\ navigation_data = NoInput.navigation_data
    /\ control_state \in [flight_mode : Modes, desired_roll : {0},
                         desired_pitch : {0}, desired_height : {0}]
    /\ lastMode = "AUTOPILOT"
    /\ deadline_missed = FALSE
    /\ servo_out = ZeroServos
    /\ elevator_out = 0 /\ aileron_out = 0 /\ yaw_out = 0 /\ motor_out = 0
    /\ servo_us = << >>
    /\ law_log = << >>
    /\ pid_log = << >>
    /\ mix_calls = 0
    /\ observed = [prev_mode |-> "NONE", run_height |-> 0]
    /\ i2c = I2CIdle

\* the globals before main() runs: zero-initialised statics, a loaded configuration
InitGlobals ==
    /\ ppm = NoInput.ppm
    /\ sensor_data = NoInput.sensor_data
    /\ navigation_data = NoInput.navigation_data
    /\ control_state \in [flight_mode : Modes, desired_roll : {0},
                         desired_pitch : {0}, desired_height : {0}]
    /\ lastMode = "MANUAL"
    /\ deadline_missed = FALSE
    /\ servo_out = ZeroServos
    /\ elevator_out = 0 /\ aileron_out = 0 /\ yaw_out = 0 /\ motor_out = 0
    /\ servo_us = << >>
    /\ law_log = << >>
    /\ pid_log = << >>
    /\ mix_calls = 0
    /\ observed = [prev_mode |-> "NONE", run_height |-> 0]
    /\ i2c = I2CIdle

-----------------------------------------------------------------------------
(* control_task *)

\* the integrators of the full PID are kept within +-MaxIntegral (angle units
\* times seconds) by the guards of the control-law steps
MaxIntegral == 500

\* the configurations the control task is run with: every topology, with and
\* without reversal and manual trim, with wide, narrow and misconfigured limits
TaskConfigs ==
    { Config("AILERON", NoReverse, 1500, 1000, 2000, FALSE),
      Config("AILERON", AllReverse, 1500, 1400, 1600, TRUE),
      Config("DELTA_PLUS", AllReverse, 1500, 1000, 2000, TRUE),
      Config("DELTA_PLUS", NoReverse, 1500, 1600, 1400, FALSE),
      Config("DELTA_MIN", NoReverse, 1500, 1400, 1600, FALSE),
      Config("QUADROCOPTER", NoReverse, 1500, 1000, 2000, TRUE),
      Config("QUADROCOPTER", AllReverse, 1500, 1400, 1600, FALSE) }

Init ==
    /\ InitGlobals
    /\ config \in TaskConfigs
    /\ build \in [ENABLE_QUADROCOPTER : BOOLEAN]
    /\ build.ENABLE_QUADROCOPTER <=> config.servo_mix = "QUADROCOPTER"
    /\ pc = "control_init"

\* the control period: DT = 1/Hz
Hz == IF build.ENABLE_QUADROCOPTER THEN 200 ELSE 100

\* the thresholds taken inclusively
FlightModeOfInclusive(a) ==
    IF a <= 1333 THEN "AUTOPILOT"
    ELSE IF a <= 1666 THEN "STABILIZED"
    ELSE "MANUAL"

\* the mode a mode-select pulse width a selects
FlightModeOf(a) ==
    IF a < 1333 THEN "AUTOPILOT"
    ELSE IF a < 1666 THEN "STABILIZED"
    ELSE "MANUAL"

\* desired_height reset in every AUTOPILOT or STABILIZED cycle
SelectModeEveryCycle(g, last) ==
    LET mode == FlightModeOf(g.ppm[g.config.channel_ap])
    IN  [g EXCEPT !.control_state.flight_mode = mode,
                  !.control_state.desired_height =
                      IF mode # "MANUAL"
                         THEN g.sensor_data.pressure_height
                         ELSE @]

\* desired_height reset only when the previous mode was MANUAL
SelectModeFromManual(g, last) ==
    LET mode == FlightModeOf(g.ppm[g.config.channel_ap])
    IN  [g EXCEPT !.control_state.flight_mode = mode,
                  !.control_state.desired_height =
                      IF mode # "MANUAL" /\ last = "MANUAL"
                         THEN g.sensor_data.pressure_height
                         ELSE @]

\* the head of each branch of the loop body: control_state.flight_mode is
\* set and, on entry into AUTOPILOT or STABILIZED, desired_height is reset
SelectMode(g, last) ==
    LET mode == FlightModeOf(g.ppm[g.config.channel_ap])
    IN  [g EXCEPT !.control_state.flight_mode = mode,
                  !.control_state.desired_height =
                      IF mode # "MANUAL" /\ last # mode
                         THEN g.sensor_data.pressure_height
                         ELSE @]

\* a cycle starts with empty records of what it did
Fresh(g) == [g EXCEPT !.servo_us = << >>, !.law_log = << >>,
                      !.pid_log = << >>, !.mix_calls = 0]

IntegralsBounded(g) ==
    /\ Abs(g.config.pid_pitch2elevator.integral) <= MaxIntegral
    /\ Abs(g.config.pid_roll2aileron.integral) <= MaxIntegral

\* servo_init(); control_init(); before the loop.  With manual trim the
\* sticks are read.
ControlInit ==
    /\ pc = "control_init"
    /\ IF config.manual_trim
          THEN \E s \in TrimSticks :
                  Assign(control_init([Globals EXCEPT
                                         !.ppm = Frame(s[1], s[2], s[3], s[4], 1666)]))
          ELSE Assign(control_init(Globals))
    /\ pc' = "delay"
    /\ UNCHANGED lastMode

\* vTaskDelayUntil() returns, at once if the wake-up time has passed already,
\* and the cycle takes one of the three branches on
\* ppm.channel[config.control.channel_ap]
Select(mode, next) ==
    /\ pc = "delay"
    /\ \E f \in PpmFrames, fl \in Flights, late \in BOOLEAN :
          LET g == [Fresh(Globals) EXCEPT
                       !.ppm = f, !.sensor_data = fl[1],
                       !.navigation_data = [desired_heading_rad |-> fl[2]],
                       !.deadline_missed = late,
                       !.observed.run_height =
                           IF mode # "AUTOPILOT" THEN 0
                           ELSE IF observed.prev_mode # "AUTOPILOT"
                                   THEN fl[1].pressure_height
                                   ELSE @]
          IN  /\ FlightModeOf(f[config.channel_ap]) = mode
              /\ Assign(SelectMode(g, lastMode))
    /\ pc' = next
    /\ UNCHANGED lastMode

SelectAutopilot  == Select("AUTOPILOT", "control_navigate")
SelectStabilized == Select("STABILIZED", "control_stabilized")
SelectManual     == Select("MANUAL", "control_manual")

\* control_navigate(DT)
Navigate ==
    /\ pc = "control_navigate"
    /\ LET g == control_navigate(Globals, Hz)
       IN  IntegralsBounded(g) /\ Assign(g)
    /\ pc' = "end"
    /\ UNCHANGED lastMode

\* control_stabilized(DT, 0)
Stabilized ==
    /\ pc = "control_stabilized"
    /\ LET g == control_stabilized(Globals, Hz, FALSE)
       IN  IntegralsBounded(g) /\ Assign(g)
    /\ pc' = "end"
    /\ UNCHANGED lastMode

\* control_manual()
Manual ==
    /\ pc = "control_manual"
    /\ Assign(control_manual(Globals))
    /\ pc' = "end"
    /\ UNCHANGED lastMode

\* lastMode = control_state.flight_mode, and back to vTaskDelayUntil().  The
\* inputs read and the records of the finished cycle are dropped.
EndCycle ==
    /\ pc = "end"
    /\ lastMode' = control_state.flight_mode
    /\ Assign([Fresh(Globals) EXCEPT !.ppm = NoInput.ppm,
                                     !.sensor_data = NoInput.sensor_data,
                                     !.navigation_data = NoInput.navigation_data,
                                     !.deadline_missed = FALSE,
                                     !.observed.prev_mode =
                                         FlightModeOf(ppm[config.channel_ap])])
    /\ pc' = "delay"

Next ==
    \/ ControlInit
    \/ SelectAutopilot
    \/ SelectStabilized
    \/ SelectManual
    \/ Navigate
    \/ Stabilized
    \/ Manual
    \/ EndCycle

Spec == Init /\ [][Next]_vars

-----------------------------------------------------------------------------
(* Properties of the control cycle (checked under Spec) *)

\* the positions of control_task between the mode selection and the end of
\* the loop body
LawEntries == {"control_navigate", "control_stabilized", "control_manual"}
InCycle == pc \in LawEntries \cup {"end"}

ModeSelect == ppm[config.channel_ap]

\* C1: every value handed to servo_set_us for channel i lies within
\* [servo_min[i], servo_max[i]], provided servo_min[i] <= servo_max[i].
ServoWritesWithinLimits ==
    \A k \in 1..Len(servo_us) :
       LET i == servo_us[k][1]
           v == servo_us[k][2]
       IN  config.servo_min[i] <= config.servo_max[i]
              => config.servo_min[i] <= v /\ v <= config.servo_max[i]

\* a finished cycle whose mixed value for channel 0 lay above the limit
ServoWritesWitness ==
    /\ pc = "end"
    /\ Len(servo_us) = 6
    /\ config.servo_min[0] < config.servo_max[0]
    /\ MixSwitch(config, servo_out, aileron_out, elevator_out, yaw_out,
                 motor_out)[0] > config.servo_max[0]
    /\ servo_us[1] = << 0, config.servo_max[0] >>

\* C2: the flight mode of a cycle is given by the mode-select pulse width a of
\* that cycle alone: AUTOPILOT below 1333, STABILIZED from 1333 to below 1666,
\* MANUAL from 1666.
ModeFollowsChannel ==
    InCycle =>
       /\ ModeSelect < 1333 => control_state.flight_mode = "AUTOPILOT"
       /\ (1333 <= ModeSelect /\ ModeSelect < 1666)
             => control_state.flight_mode = "STABILIZED"
       /\ ModeSelect >= 1666 => control_state.flight_mode = "MANUAL"

ModeFollowsChannelWitness ==
    /\ pc = "end"
    /\ ModeSelect = 1333
    /\ control_state.flight_mode = "STABILIZED"
    /\ lastMode = "AUTOPILOT"

\* C3: when a cycle selects AUTOPILOT or STABILIZED and the previous cycle had
\* another mode, desired_height is the barometric height of the cycle by the
\* time the control law is entered.
HeightResetOnEntry ==
    (/\ pc \in {"control_navigate", "control_stabilized"}
     /\ lastMode # control_state.flight_mode)
    => /\ control_state.desired_height = sensor_data.pressure_height
       /\ law_log = << >>

HeightResetWitness ==
    /\ pc = "control_navigate"
    /\ lastMode = "STABILIZED"
    /\ sensor_data.pressure_height = 140
    /\ control_state.desired_height = 140

LawOf(mode) ==
    CASE mode = "AUTOPILOT"  -> "control_navigate"
      [] mode = "STABILIZED" -> "control_stabilized"
      [] OTHER               -> "control_manual"

\* C4: a cycle runs exactly one control law, that of the mode selected in the
\* cycle, and the law makes exactly one mixer pass, which writes the six
\* clamped channels; no law or mixer pass precedes the dispatch.
OneLawOneMixerPass ==
    /\ pc \in LawEntries =>
          /\ pc = LawOf(control_state.flight_mode)
          /\ law_log = << >> /\ mix_calls = 0 /\ servo_us = << >>
    /\ pc = "end" =>
          /\ control_state.flight_mode = FlightModeOf(ModeSelect)
          /\ law_log = << LawOf(control_state.flight_mode) >>
          /\ mix_calls = 1
          /\ Len(servo_us) = 6
          /\ \A k \in 1..6 : servo_us[k] = << k - 1, servo_out[k - 1] >>

OneLawWitness ==
    /\ pc = "end"
    /\ control_state.flight_mode = "MANUAL"
    /\ lastMode = "AUTOPILOT"
    /\ law_log = << "control_manual" >>
    /\ mix_calls = 1

\* C5: at every update of the pitch or roll PID the desired angle is within
\* +-max_pitch or +-max_roll, and so are control_state.desired_pitch and
\* desired_roll after a STABILIZED or AUTOPILOT cycle.
DesiredAnglesLimited ==
    /\ \A k \in 1..Len(pid_log) :
          /\ pid_log[k].pid = "pid_pitch2elevator"
                => Abs(pid_log[k].error + sensor_data.pitch) <= config.max_pitch
          /\ pid_log[k].pid = "pid_roll2aileron"
                => Abs(pid_log[k].error + sensor_data.roll) <= config.max_roll
    /\ (pc = "end" /\ control_state.flight_mode # "MANUAL") =>
          /\ Abs(control_state.desired_pitch) <= config.max_pitch
          /\ Abs(control_state.desired_roll) <= config.max_roll
          /\ \E k \in 1..Len(pid_log) : pid_log[k].pid = "pid_pitch2elevator"
          /\ \E k \in 1..Len(pid_log) : pid_log[k].pid = "pid_roll2aileron"

\* a STABILIZED cycle with both sticks beyond their half range
DesiredAnglesWitness ==
    /\ pc = "end"
    /\ control_state.flight_mode = "STABILIZED"
    /\ Stick(Globals, config.channel_roll) > 500
    /\ Stick(Globals, config.channel_pitch) < -500
    /\ control_state.desired_roll = config.max_roll
    /\ control_state.desired_pitch = -config.max_pitch

-----------------------------------------------------------------------------
(* the mixer on its own: control_mix_out applied to arbitrary axis commands *)

AileronCommands  == {-7, 100, 200}
ElevatorCommands == {-100, 0, 13}
YawCommands      == {-7, 0, 50}
MotorCommands    == {0, 500, 600}

MixConfigs ==
    { Config(mix, rev, neutral, lim[1], lim[2], FALSE) :
        mix \in Topologies, rev \in Reversals,
        neutral \in {1200, 1500}, lim \in Limits }

InitMix ==
    /\ InitGlobals
    /\ control_state.flight_mode = "MANUAL"
    /\ config \in MixConfigs
    /\ build = [ENABLE_QUADROCOPTER |-> FALSE]
    /\ pc = "mix"

MixCall ==
    /\ pc = "mix"
    /\ \E a \in AileronCommands, e \in ElevatorCommands,
          y \in YawCommands, m \in MotorCommands :
          Assign(control_mix_out([Fresh(Globals) EXCEPT
                                    !.aileron_out = a, !.elevator_out = e,
                                    !.yaw_out = y, !.motor_out = m]))
    /\ UNCHANGED << pc, lastMode >>

NextMix == MixCall

SpecMix == InitMix /\ [][NextMix]_vars

-----------------------------------------------------------------------------
(* Properties of the mixer (checked under SpecMix) *)

\* v limited to [lo, hi], lo <= hi
Within(v, lo, hi) == IF v < lo THEN lo ELSE IF v > hi THEN hi ELSE v

\* the limit of channel i applied to v
Limited(v, i) == Within(v, config.servo_min[i], config.servo_max[i])

LimitsOrdered == \A i \in Servos : config.servo_min[i] <= config.servo_max[i]

Mixed == mix_calls = 1

\* servo_out[] before the clamp, for a configuration cfg and the axis commands
\* of the current state
PreClamp(cfg) ==
    MixSwitch(cfg, servo_out, aileron_out, elevator_out, yaw_out, motor_out)

\* C6: the outputs of a mixer pass depend only on the axis commands and the
\* configuration: they are what a pass with these commands yields on the
\* freshly started program, and what a second pass with them yields now.
MixerIsPure ==
    Mixed =>
      \A so \in {ZeroServos, servo_out} :
         control_mix_out([Globals EXCEPT !.servo_out = so]).servo_out = servo_out

\* a pass in a topology that leaves channels 2, 4 and 5 unassigned
MixerIsPureWitness ==
    /\ Mixed
    /\ config.servo_mix = "DELTA_PLUS"
    /\ LimitsOrdered
    /\ aileron_out = 200 /\ motor_out = 600
    /\ \A i \in {2, 4, 5} : servo_out[i] = config.servo_min[i]

\* C7: AILERON topology without reversal: servo[0] = neutral + aileron,
\* servo[1] = neutral - aileron, servo[2] = neutral + elevator,
\* servo[3] = neutral + motor, each limited to its [min, max]; the commands
\* 200, -100, 500 with neutrals 1500 and limits [1000, 2000] give
\* 1700, 1300, 1400, 2000.
AileronMix ==
    (/\ Mixed
     /\ config.servo_mix = "AILERON"
     /\ ~config.reverse_servo1 /\ ~config.reverse_servo2
     /\ ~config.reverse_servo3 /\ ~config.reverse_servo4 /\ ~config.reverse_servo5
     /\ LimitsOrdered)
    => /\ servo_out[0] = Limited(config.servo_neutral[0] + aileron_out, 0)
       /\ servo_out[1] = Limited(config.servo_neutral[1] - aileron_out, 1)
       /\ servo_out[2] = Limited(config.servo_neutral[2] + elevator_out, 2)
       /\ servo_out[3] = Limited(config.servo_neutral[3] + motor_out, 3)
       /\ (/\ aileron_out = 200 /\ elevator_out = -100 /\ motor_out = 500
           /\ \A i \in 0..3 : /\ config.servo_neutral[i] = 1500
                              /\ config.servo_min[i] = 1000
                              /\ config.servo_max[i] = 2000)
          => /\ servo_out[0] = 1700 /\ servo_out[1] = 1300
             /\ servo_out[2] = 1400 /\ servo_out[3] = 2000

AileronMixWitness ==
    /\ Mixed
    /\ config.servo_mix = "AILERON"
    /\ ~config.reverse_servo1 /\ ~config.reverse_servo2
    /\ ~config.reverse_servo3 /\ ~config.reverse_servo4 /\ ~config.reverse_servo5
    /\ aileron_out = 200 /\ elevator_out = -100 /\ motor_out = 500 /\ yaw_out = 0
    /\ \A i \in 0..3 : /\ config.servo_neutral[i] = 1500
                       /\ config.servo_min[i] = 1000
                       /\ config.servo_max[i] = 2000
    /\ servo_out[0] = 1700 /\ servo_out[3] = 2000

\* C8: in the AILERON topology servo[4] is neutral[4] plus or minus yaw_out
\* (by the reversal flag of the channel), limited to its bounds.
YawDrivesServo5 ==
    (Mixed /\ config.servo_mix = "AILERON" /\ LimitsOrdered)
    => servo_out[4] = Limited(IF config.reverse_servo5
                                 THEN config.servo_neutral[4] + yaw_out
                                 ELSE config.servo_neutral[4] - yaw_out, 4)

\* C9: QUADROCOPTER topology: every motor gets motor + neutral, plus or minus
\* a fifth (C integer division) of aileron or elevator and of yaw, limited;
\* motor 600, aileron 100, elevator 0, yaw 50 with neutrals 1200 give
\* servo[0] = 1830 and servo[2] = 1790.
QuadrocopterMix ==
    (Mixed /\ config.servo_mix = "QUADROCOPTER" /\ LimitsOrdered)
    => LET a5 == CDiv(aileron_out, 5)
           e5 == CDiv(elevator_out, 5)
           y5 == CDiv(yaw_out, 5)
           n  == config.servo_neutral
       IN  /\ servo_out[0] = Limited(motor_out + a5 + y5 + n[0], 0)
           /\ servo_out[1] = Limited(motor_out + e5 - y5 + n[1], 1)
           /\ servo_out[2] = Limited(motor_out - a5 + y5 + n[2], 2)
           /\ servo_out[3] = Limited(motor_out - e5 - y5 + n[3], 3)
           /\ (/\ motor_out = 600 /\ aileron_out = 100 /\ elevator_out = 0
               /\ yaw_out = 50
               /\ \A i \in 0..3 : /\ n[i] = 1200 /\ config.servo_min[i] = 1000
                                  /\ config.servo_max[i] = 2000)
              => servo_out[0] = 1830 /\ servo_out[2] = 1790

QuadrocopterMixWitness ==
    /\ Mixed
    /\ config.servo_mix = "QUADROCOPTER"
    /\ motor_out = 600 /\ aileron_out = 100 /\ elevator_out = 0 /\ yaw_out = 50
    /\ \A i \in 0..3 : config.servo_neutral[i] = 1200
    /\ servo_out[0] = 1830 /\ servo_out[2] = 1790

\* the channels each case of the mixer assigns
AssignedChannels(mix) ==
    IF mix \in {"DELTA_PLUS", "DELTA_MIN"} THEN {0, 1, 3} ELSE {0, 1, 2, 3}

\* the configuration with the reversal flag of channel i set to b
WithReversal(cfg, i, b) ==
    CASE i = 0 -> [cfg EXCEPT !.reverse_servo1 = b]
      [] i = 1 -> [cfg EXCEPT !.reverse_servo2 = b]
      [] i = 2 -> [cfg EXCEPT !.reverse_servo3 = b]
      [] i = 3 -> [cfg EXCEPT !.reverse_servo4 = b]
      [] OTHER -> [cfg EXCEPT !.reverse_servo5 = b]

\* the reversal flag of channel i mirrors the channel's output, before the
\* clamp, about its neutral
ReversalMirrors(i) ==
    PreClamp(WithReversal(config, i, TRUE))[i]
       = 2 * config.servo_neutral[i] - PreClamp(WithReversal(config, i, FALSE))[i]

\* C10 as stated: in every topology the reversal flag of every channel the
\* topology drives mirrors that channel's output about its neutral.
ReversalInEveryTopology ==
    Mixed => \A i \in AssignedChannels(config.servo_mix) : ReversalMirrors(i)

\* C10, amended: this holds in the AILERON, DELTA_PLUS and DELTA_MIN
\* topologies; in QUADROCOPTER no output depends on a reversal flag.
ReversalInFixedWingTopologies ==
    Mixed =>
      IF config.servo_mix = "QUADROCOPTER"
         THEN \A i \in Servos :
                 PreClamp(WithReversal(config, i, TRUE))
                    = PreClamp(WithReversal(config, i, FALSE))
         ELSE \A i \in AssignedChannels(config.servo_mix) : ReversalMirrors(i)

ReversalWitness ==
    /\ Mixed
    /\ config.servo_mix = "DELTA_MIN"
    /\ config.reverse_servo2
    /\ aileron_out = 100 /\ elevator_out = 13
    /\ servo_out[1] = config.servo_neutral[1] + 113

Deltas == {"DELTA_PLUS", "DELTA_MIN"}

\* the other elevon variant of a DELTA configuration
OtherDelta(cfg) ==
    [cfg EXCEPT !.servo_mix = IF @ = "DELTA_PLUS" THEN "DELTA_MIN"
                                                  ELSE "DELTA_PLUS"]

\* what the mixer adds to the neutral of channel i for aileron a, elevator e
MixTerm(cfg, i, a, e) ==
    MixSwitch(cfg, ZeroServos, a, e, 0, 0)[i] - cfg.servo_neutral[i]

\* C11: in DELTA_PLUS and DELTA_MIN servo[0] and servo[1] are neutral plus a
\* signed sum of aileron and elevator; the other variant has the same sign on
\* the aileron term and the opposite sign on the elevator term, on both
\* surfaces; servo[3] is neutral[3] plus or minus motor whatever aileron and
\* elevator are.
ElevonMix ==
    (Mixed /\ config.servo_mix \in Deltas) =>
       /\ \A i \in {0, 1} :
             LET sa == MixTerm(config, i, 1, 0)
                 se == MixTerm(config, i, 0, 1)
                 sum == config.servo_neutral[i] + sa * aileron_out
                                               + se * elevator_out
             IN  /\ sa \in {-1, 1} /\ se \in {-1, 1}
                 /\ PreClamp(config)[i] = sum
                 /\ LimitsOrdered => servo_out[i] = Limited(sum, i)
                 /\ MixTerm(OtherDelta(config), i, 1, 0) = sa
                 /\ MixTerm(OtherDelta(config), i, 0, 1) = -se
                 /\ PreClamp(OtherDelta(config))[i]
                       = config.servo_neutral[i] + sa * aileron_out
                                                 - se * elevator_out
       /\ LET m == config.servo_neutral[3]
                     + (IF config.reverse_servo4 THEN -motor_out ELSE motor_out)
          IN  /\ PreClamp(config)[3] = m
              /\ LimitsOrdered => servo_out[3] = Limited(m, 3)
              /\ \A a \in AileronCommands, e \in ElevatorCommands :
                    MixSwitch(config, servo_out, a, e, yaw_out, motor_out)[3] = m

\* a DELTA_PLUS pass without reversal: servo[0] = neutral - aileron - elevator,
\* servo[1] = neutral - aileron + elevator
ElevonMixWitness ==
    /\ Mixed
    /\ config.servo_mix = "DELTA_PLUS"
    /\ ~config.reverse_servo1 /\ ~config.reverse_servo2
    /\ aileron_out = 100 /\ elevator_out = 13 /\ motor_out = 500
    /\ servo_out[0] = config.servo_neutral[0] - 113
    /\ servo_out[1] = config.servo_neutral[1] - 87

-----------------------------------------------------------------------------
(* Further properties of the control cycle (checked under Spec) *)

\* axis commands an earlier cycle may have left behind
StaleCommands == {-300, 0, 77}

\* C12: after the control law of a MANUAL cycle every axis command is the pulse
\* width of its input channel minus the configured neutral of that channel,
\* whatever the sensors, the PID state and the previous axis commands are.
ManualPassThrough ==
    (pc = "end" /\ control_state.flight_mode = "MANUAL") =>
       /\ elevator_out = ppm[config.channel_pitch]
                            - config.channel_neutral[config.channel_pitch]
       /\ aileron_out = ppm[config.channel_roll]
                            - config.channel_neutral[config.channel_roll]
       /\ motor_out = ppm[config.channel_motor]
                            - config.channel_neutral[config.channel_motor]
       /\ yaw_out = ppm[config.channel_yaw]
                            - config.channel_neutral[config.channel_yaw]
       /\ pid_log = << >>
       /\ \A fl \in Flights, x \in StaleCommands, i \in {0, MaxIntegral} :
             LET g == control_manual(
                        [Globals EXCEPT
                           !.sensor_data = fl[1],
                           !.elevator_out = x, !.aileron_out = x,
                           !.motor_out = x, !.yaw_out = x,
                           !.config.pid_pitch2elevator.integral = i,
                           !.config.pid_roll2aileron.previous_error = i])
             IN  /\ g.elevator_out = elevator_out
                 /\ g.aileron_out = aileron_out
                 /\ g.motor_out = motor_out
                 /\ g.yaw_out = yaw_out

\* a MANUAL cycle after an AUTOPILOT cycle, with trimmed neutrals
ManualPassThroughWitness ==
    /\ pc = "end"
    /\ control_state.flight_mode = "MANUAL"
    /\ lastMode = "AUTOPILOT"
    /\ config.channel_neutral[config.channel_yaw] = 1520
    /\ ppm[config.channel_yaw] = 1600
    /\ yaw_out = 80 /\ motor_out = 1000 /\ elevator_out = -100
    /\ aileron_out = 200

-----------------------------------------------------------------------------
(* control_stabilized with altitude hold.  control_task passes 0 for         *)
(* altitude_hold, so the function is run on its own here.                    *)

\* a fixed-wing configuration, and a quadrocopter one whose max_pitch is above
\* one radian
HoldConfigs ==
    { Config("AILERON", NoReverse, 1500, 1000, 2000, FALSE),
      [Config("QUADROCOPTER", NoReverse, 1500, 1000, 2000, FALSE)
          EXCEPT !.max_pitch = 150000] }

\* pitch stick: centred, inside the neutral band (a 25th of full throw),
\* outside it, and beyond full throw
HoldPitchSticks == {1500, 1520, 1700, 800}

\* roll stick: centred, and beyond full throw
HoldRollSticks == {1500, 2100}

InitHold ==
    /\ InitGlobals
    /\ control_state.flight_mode = "STABILIZED"
    /\ config \in HoldConfigs
    /\ build \in [ENABLE_QUADROCOPTER : BOOLEAN]
    /\ build.ENABLE_QUADROCOPTER <=> config.servo_mix = "QUADROCOPTER"
    /\ pc = "hold"

\* control_stabilized(DT, 1)
HoldCall ==
    /\ pc = "hold"
    /\ \E s \in HoldPitchSticks, r \in HoldRollSticks, fl \in Flights :
          LET g == control_stabilized(
                     [Fresh(Globals) EXCEPT
                        !.ppm = Frame(r, s, 1200, 1500, 1500),
                        !.sensor_data = fl[1]], Hz, TRUE)
          IN  IntegralsBounded(g) /\ Assign(g)
    /\ UNCHANGED << pc, lastMode >>

NextHold == HoldCall

SpecHold == InitHold /\ [][NextHold]_vars

\* C13: with altitude hold requested, a cycle whose scaled pitch stick exceeds
\* max_pitch/5 in magnitude takes the (limited) stick value as desired pitch
\* and re-captures desired_height from the barometric height; a cycle whose
\* stick is within the band takes (desired_height - height)/20 * max_pitch
\* (limited) and leaves desired_height unchanged.
StickOverridesAltitudeHold ==
    [][HoldCall =>
         LET stick == CDiv((ppm'[config.channel_pitch]
                              - config.channel_neutral[config.channel_pitch])
                           * config.max_pitch, 500)
             hold  == CDiv((control_state.desired_height
                              - sensor_data'.pressure_height)
                           * config.max_pitch, 20)
         IN  IF Abs(stick) * 5 > config.max_pitch
                THEN /\ control_state'.desired_pitch
                          = Within(stick, -config.max_pitch, config.max_pitch)
                     /\ control_state'.desired_height
                          = sensor_data'.pressure_height
                ELSE /\ control_state'.desired_pitch
                          = Within(hold, -config.max_pitch, config.max_pitch)
                     /\ control_state'.desired_height
                          = control_state.desired_height]_vars

-----------------------------------------------------------------------------
(* Properties of the final stage (checked under Spec) *)

\* (int)(sensor_data.r * pid_heading2roll.d_gain * 630.0)
YawRateTerm ==
    CDiv(sensor_data.r * config.pid_heading2roll.d_gain * 630,
         GainUnit * RadUnit)

\* C14: after the control law of a STABILIZED or AUTOPILOT cycle motor_out and
\* yaw_out, as mixed, are the pilot channel minus its neutral; in the
\* quadrocopter build yaw_out is further reduced by r * d_gain * 630.
YawRateFeedback ==
    (pc = "end" /\ control_state.flight_mode # "MANUAL") =>
       /\ motor_out = ppm[config.channel_motor]
                         - config.channel_neutral[config.channel_motor]
       /\ yaw_out = ppm[config.channel_yaw]
                         - config.channel_neutral[config.channel_yaw]
                         - (IF build.ENABLE_QUADROCOPTER THEN YawRateTerm ELSE 0)

-----------------------------------------------------------------------------
(* control_navigate on its own, over headings and ground speeds *)

NavConfigs ==
    { Config("AILERON", NoReverse, 1500, 1000, 2000, FALSE),
      Config("QUADROCOPTER", NoReverse, 1500, 1000, 2000, FALSE) }

\* headings within one turn, in angle units: the ends -PI and PI, 3 rad either
\* way, and values close to 0
Headings == {-PI, -300000, 0, 1, 5000, 300000, PI}

\* ground speeds in cm/s, around the two corners of the schedule
Speeds == {500, 1319, 1320, 2000, 3000, 3001, 4000}

InitNav ==
    /\ InitGlobals
    /\ control_state.flight_mode = "AUTOPILOT"
    /\ config \in NavConfigs
    /\ build \in [ENABLE_QUADROCOPTER : BOOLEAN]
    /\ build.ENABLE_QUADROCOPTER <=> config.servo_mix = "QUADROCOPTER"
    /\ pc = "navigate"

\* control_navigate(DT), applied once to the freshly started program
NavCall ==
    /\ pc = "navigate"
    /\ law_log = << >>
    /\ \E d \in Headings, h \in Headings, v \in Speeds :
          LET g == control_navigate(
                     [Fresh(Globals) EXCEPT
                        !.ppm = Frame(1500, 1500, 1200, 1500, 1000),
                        !.sensor_data = Sensors(0, 0, 0, 0, 0, 0, h, v),
                        !.navigation_data = [desired_heading_rad |-> d]], Hz)
          IN  IntegralsBounded(g) /\ Assign(g)
    /\ UNCHANGED << pc, lastMode >>

NextNav == NavCall

SpecNav == InitNav /\ [][NextNav]_vars

Navigated == law_log = << "control_navigate" >>

\* desired heading minus current heading, as control_navigate starts with
RawHeadingError ==
    navigation_data.desired_heading_rad - sensor_data.gps.heading_rad

\* the error argument of the heading-to-roll PID update of this call
FedHeadingError == pid_log[1].error

Times(x, num, den) ==
    LET q == CDiv(x, den)
    IN  q * num + CDiv((x - q * den) * num, den)

\* the output of the heading PID for the heading error of this call
HeadingPidRoll ==
    pid_update_only_p(config.pid_heading2roll, FedHeadingError, Hz)

\* C16: control_navigate multiplies the roll command of the heading PID by
\* ground_speed/20 limited to [0.66, 1.5]: by 1.5 above 30 m/s (e.g. 40 m/s),
\* by 0.66 below 13.2 m/s (e.g. 5 m/s), by ground_speed/20 in between; the
\* product is then limited to +-max_roll by the final stage.
SpeedSchedule ==
    Navigated =>
       LET v == sensor_data.gps.speed_ms
           scaled == IF v > 3000 THEN Times(HeadingPidRoll, 3, 2)
                     ELSE IF v < 1320 THEN Times(HeadingPidRoll, 66, 100)
                     ELSE Times(HeadingPidRoll, v, 2000)
       IN  /\ control_state.desired_roll
                 = Within(scaled, -config.max_roll, config.max_roll)
           /\ (HeadingPidRoll = 15000 /\ v = 4000)
                 => control_state.desired_roll = 22500
           /\ (HeadingPidRoll = 15000 /\ v = 500)
                 => control_state.desired_roll = 9900
           /\ (HeadingPidRoll = 15000 /\ v = 2000)
                 => control_state.desired_roll = 15000

\* 40 m/s with a heading error of 0.05 rad: the roll command 0.15 rad becomes
\* 0.225 rad, not 0.3 rad
SpeedScheduleWitness ==
    /\ Navigated
    /\ sensor_data.gps.speed_ms = 4000
    /\ FedHeadingError = 5000
    /\ HeadingPidRoll = 15000
    /\ control_state.desired_roll = 22500

-----------------------------------------------------------------------------
(* control_init on its own, over configurations and receiver frames *)

\* every topology, with and without reversal and manual trim, servo neutrals
\* configured at 1400 us
InitConfigs ==
    { Config(mix, rev, 1400, lim[1], lim[2], trim) :
        mix \in Topologies, rev \in {NoReverse, AllReverse},
        lim \in Limits, trim \in BOOLEAN }

\* the sticks as control_init finds them: roll, pitch, motor, yaw
InitSticks == { Centred, << 1500, 1520, 1000, 1520 >>, Partial, Beyond }

InitTrim ==
    /\ InitGlobals
    /\ control_state.flight_mode = "MANUAL"
    /\ config \in InitConfigs
    /\ build \in [ENABLE_QUADROCOPTER : BOOLEAN]
    /\ build.ENABLE_QUADROCOPTER <=> config.servo_mix = "QUADROCOPTER"
    /\ pc = "control_init"

\* control_init() with the receiver delivering the frame of sticks s
InitCall ==
    /\ pc = "control_init"
    /\ \E s \in InitSticks :
          Assign(control_init([Globals EXCEPT
                                 !.ppm = Frame(s[1], s[2], s[3], s[4], 1666)]))
    /\ pc' = "trimmed"
    /\ UNCHANGED lastMode

\* a MANUAL cycle after control_init: control_manual() on a frame of sticks s
ManualAfterInit ==
    /\ pc \in {"trimmed", "control_manual"}
    /\ \E s \in InitSticks :
          Assign(control_manual(
                   [Fresh(Globals) EXCEPT
                      !.ppm = Frame(s[1], s[2], s[3], s[4], 1666),
                      !.control_state.flight_mode = "MANUAL"]))
    /\ pc' = "control_manual"
    /\ UNCHANGED lastMode

NextTrim == InitCall \/ ManualAfterInit

SpecTrim == InitTrim /\ [][NextTrim]_vars

\* C17: control_init changes the configuration only with manual_trim set.
\* Then every input channel's pulse width becomes its neutral, each axis
\* command is the captured neutral of its channel minus 1500 (pitch neutral
\* 1520: elevator 20), one mixer pass runs, and its clamped output on each of
\* the six channels becomes that channel's servo neutral.  With the flag
\* clear, channel neutrals, servo neutrals and axis commands stay as they are.
TrimBootstrap ==
    [][InitCall =>
         IF config.manual_trim
            THEN /\ \A c \in Channels : config'.channel_neutral[c] = ppm'[c]
                 /\ elevator_out' = ppm'[config.channel_pitch] - 1500
                 /\ aileron_out' = ppm'[config.channel_roll] - 1500
                 /\ yaw_out' = ppm'[config.channel_yaw] - 1500
                 /\ motor_out' = ppm'[config.channel_motor] - 1500
                 /\ ppm'[config.channel_pitch] = 1520 => elevator_out' = 20
                 /\ mix_calls' = 1
                 /\ \A i \in Servos :
                       /\ servo_us'[i + 1] = << i, servo_out'[i] >>
                       /\ config'.servo_neutral[i] = servo_out'[i]
                       /\ config.servo_min[i] <= config.servo_max[i]
                             => /\ config.servo_min[i] <= servo_out'[i]
                                /\ servo_out'[i] <= config.servo_max[i]
                 /\ [config' EXCEPT !.channel_neutral = config.channel_neutral,
                                    !.servo_neutral = config.servo_neutral]
                       = config
            ELSE /\ config' = config
                 /\ mix_calls' = 0
                 /\ servo_out' = servo_out
                 /\ << elevator_out', aileron_out', yaw_out', motor_out' >>
                       = << elevator_out, aileron_out, yaw_out, motor_out >>]_vars

\* trimmed with the pitch stick at 1520: elevator 20, which the AILERON mixer
\* carries to the neutral of servo 3
TrimBootstrapWitness ==
    /\ pc = "trimmed"
    /\ config.manual_trim
    /\ config.servo_mix = "AILERON"
    /\ ~config.reverse_servo3
    /\ config.channel_neutral[config.channel_pitch] = 1520
    /\ elevator_out = 20
    /\ servo_out[2] = 1520
    /\ config.servo_neutral[2] = 1520

-----------------------------------------------------------------------------
(* Timing of the cycle (checked under Spec) *)

\* everything control_task and the functions it calls write or hand to the
\* servo driver; ls is the task's local lastMode
Written(g, ls) ==
    << g.config, g.control_state, g.servo_out, g.elevator_out, g.aileron_out,
       g.yaw_out, g.motor_out, g.servo_us, ls >>

\* the globals with the deadline of the cycle met
OnTime == [Globals EXCEPT !.deadline_missed = FALSE]

\* a step of a cycle that began after its wake-up time
LateStep ==
    \/ pc = "delay" /\ deadline_missed'
    \/ pc \in LawEntries \cup {"end"} /\ deadline_missed

\* what the step control_task takes from the current position writes when the
\* cycle is on time, given the inputs the step reads
StepOnTime ==
    CASE pc = "delay" ->
            Written(SelectMode([Fresh(OnTime) EXCEPT
                                   !.ppm = ppm', !.sensor_data = sensor_data',
                                   !.navigation_data = navigation_data'],
                               lastMode), lastMode)
      [] pc = "control_navigate" ->
            Written(control_navigate(OnTime, Hz), lastMode)
      [] pc = "control_stabilized" ->
            Written(control_stabilized(OnTime, Hz, FALSE), lastMode)
      [] pc = "control_manual" ->
            Written(control_manual(OnTime), lastMode)
      [] OTHER ->
            Written(Fresh(OnTime), control_state.flight_mode)

\* C18: a cycle that missed its deadline is counted or reported, never
\* silently skipped: the steps of a cycle that began late leave a trace in
\* what the task writes (a fault counter or flag), so they differ from the
\* same steps of a cycle begun on time.
TimingFaultReported ==
    [][LateStep => Written(Globals, lastMode)' # StepOnTime]_vars

\* What the task does instead: no step of a late cycle writes anything an
\* on-time cycle would not write, so nothing counts or reports the fault.
TimingFaultUnnoticed ==
    [][LateStep => Written(Globals, lastMode)' = StepOnTime]_vars

-----------------------------------------------------------------------------
(* Frame of the cycle (checked under Spec) *)

\* C19: desired_height changes only in a cycle that selects AUTOPILOT or
\* STABILIZED after another mode, and then at the mode selection; no other
\* step of any cycle changes it, and a MANUAL cycle changes neither
\* desired_height nor desired_roll nor desired_pitch.
HeightFrame ==
    [][/\ pc = "delay" =>
            LET mode == control_state'.flight_mode
            IN  /\ control_state'.desired_height =
                      IF mode \in {"AUTOPILOT", "STABILIZED"} /\ mode # lastMode
                         THEN sensor_data'.pressure_height
                         ELSE control_state.desired_height
                /\ control_state'.desired_roll = control_state.desired_roll
                /\ control_state'.desired_pitch = control_state.desired_pitch
       /\ pc \in LawEntries =>
            control_state'.desired_height = control_state.desired_height
       /\ (pc \in LawEntries /\ control_state.flight_mode = "MANUAL") =>
            control_state' = control_state
       /\ pc \in {"control_init", "end"} => control_state' = control_state
      ]_vars

\* the end of an AUTOPILOT cycle that follows an AUTOPILOT cycle, at another
\* height than the one the target was taken at
HeightFrameWitness ==
    /\ pc = "end"
    /\ control_state.flight_mode = "AUTOPILOT"
    /\ lastMode = "AUTOPILOT"
    /\ control_state.desired_height = 100
    /\ sensor_data.pressure_height = 140

-----------------------------------------------------------------------------
(* The altitude target of a run of AUTOPILOT cycles (checked under Spec) *)

\* C20: whenever control_navigate runs in control_task, desired_height is the
\* barometric height of the first cycle of the current unbroken run of
\* AUTOPILOT cycles, also when the run starts with the first cycle after
\* startup; it is neither the startup value nor the target of an earlier run.
NavigateHoldsRunHeight ==
    (pc \in {"control_navigate", "end"} /\ control_state.flight_mode = "AUTOPILOT")
    => /\ control_state.desired_height = observed.run_height
       /\ observed.prev_mode # "AUTOPILOT"
             => control_state.desired_height = sensor_data.pressure_height

\* control_navigate about to run in the first cycle after startup, at 140 m
NavigateFirstCycleWitness ==
    /\ pc = "control_navigate"
    /\ observed.prev_mode = "NONE"
    /\ sensor_data.pressure_height = 140
    /\ control_state.desired_height = 140

-----------------------------------------------------------------------------
(* The trimmed neutral position (checked under SpecTrim) *)

\* C21: after control_init with manual trim, a MANUAL cycle whose input
\* channels all have the pulse widths captured by control_init writes the
\* stored servo neutral on each of the six channels, in every topology and
\* for every reversal setting, given servo_min <= servo_max on every channel.
TrimmedNeutralReproduced ==
    (/\ pc = "control_manual"
     /\ config.manual_trim
     /\ \A c \in Channels : ppm[c] = config.channel_neutral[c]
     /\ LimitsOrdered)
    => /\ \A i \in Servos : servo_out[i] = config.servo_neutral[i]
       /\ servo_us = ServoWrites(config.servo_neutral)

\* sticks beyond full throw at trim and in the MANUAL cycle, AILERON topology
\* with every channel reversed and narrow limits: servo 1 rests on its limit
TrimmedNeutralWitness ==
    /\ pc = "control_manual"
    /\ config.manual_trim
    /\ config.servo_mix = "AILERON"
    /\ config.reverse_servo1
    /\ config.servo_min[0] = 1400 /\ config.servo_max[0] = 1600
    /\ ppm[config.channel_roll] = 2100
    /\ \A c \in Channels : ppm[c] = config.channel_neutral[c]
    /\ aileron_out = 0
    /\ servo_out[0] = 1400
    /\ servo_out = config.servo_neutral

\* ------------------------------------------------------------------------
\* The I2C driver of the HMC5843 magnetometer (hmc5843.c)
\* ------------------------------------------------------------------------

\* the status bits the driver polls; a bit is "busy" while its polling loop
\* goes on: SEN, RSEN, PEN, TBF and TRSTAT while they are set, RBF while it
\* is clear
I2CBits == {"SEN", "RSEN", "PEN", "TBF", "TRSTAT", "RBF"}

\* the peripherals of the runs: for each, the bits that stay busy for ever;
\* the other bits may be read busy or not at each poll
Peripherals == {{}, I2CBits} \cup {{b} : b \in I2CBits}

\* I2Cwrite and I2Cread as the calls they make, in order
I2CCalls(fn) ==
    IF fn = "I2Cwrite"
    THEN << "i2c_start", "send_i2c_byte", "send_i2c_byte", "send_i2c_byte",
            "reset_i2c_bus" >>
    ELSE << "i2c_start", "send_i2c_byte", "send_i2c_byte", "i2c_restart",
            "send_i2c_byte", "i2c_read_byte", "reset_i2c_bus" >>

\* what one read of a status bit can give: TRUE when the bit is busy
I2CPoll(d, bit) == IF bit \in d.stuck THEN {TRUE} ELSE BOOLEAN

\* where a callee starts: send_i2c_byte at its wait for TBF, the others at
\* their one polling loop
I2CEntry(todo) ==
    IF todo = << >> THEN "return"
    ELSE IF Head(todo) = "send_i2c_byte" THEN "tbf" ELSE "poll"

\* the driver after the current callee returned to I2Cwrite or I2Cread
I2CDone(d) ==
    [d EXCEPT !.todo = Tail(@), !.at = I2CEntry(Tail(d.todo)), !.n = 0,
              !.last = Head(d.todo)]

\* the driver running the function f at the position at
I2CIn(f, at) ==
    /\ pc = "i2c"
    /\ i2c.todo # << >>
    /\ Head(i2c.todo) = f
    /\ i2c.at = at

\* the I2C step that leaves the driver as d
I2CStep(d) ==
    /\ Assign([Globals EXCEPT !.i2c = d])
    /\ UNCHANGED << pc, lastMode >>

\* one poll of a loop "while (bit) { x++; if (x > limit) break; }"
I2CBoundedPoll(d, bit, limit) ==
    { IF busy /\ d.n + 1 <= limit THEN [d EXCEPT !.n = @ + 1] ELSE I2CDone(d) :
        busy \in I2CPoll(d, bit) }

\* i2c_start: one poll of SEN
i2c_start ==
    /\ I2CIn("i2c_start", "poll")
    /\ \E d \in I2CBoundedPoll(i2c, "SEN", 20) : I2CStep(d)

\* i2c_restart: one poll of RSEN
i2c_restart ==
    /\ I2CIn("i2c_restart", "poll")
    /\ \E d \in I2CBoundedPoll(i2c, "RSEN", 20) : I2CStep(d)

\* reset_i2c_bus, called by I2Cwrite or I2Cread: one poll of PEN
reset_i2c_bus ==
    /\ I2CIn("reset_i2c_bus", "poll")
    /\ \E d \in I2CBoundedPoll(i2c, "PEN", 20) : I2CStep(d)

\* i2c_read_byte: one poll of RBF
i2c_read_byte ==
    /\ I2CIn("i2c_read_byte", "poll")
    /\ \E d \in I2CBoundedPoll(i2c, "RBF", 2000) : I2CStep(d)

\* send_i2c_byte waiting for TBF: the loop has no counter, so a poll that
\* reads TBF set changes nothing and the only step is the one that leaves
\* the loop
send_i2c_byte_tbf ==
    /\ I2CIn("send_i2c_byte", "tbf")
    /\ \E busy \in I2CPoll(i2c, "TBF") :
          /\ ~busy
          /\ I2CStep([i2c EXCEPT !.at = "trstat", !.n = 0])

\* send_i2c_byte waiting for the transmission: one turn of the for loop,
\* and return(1) once i is 500
send_i2c_byte_trstat ==
    /\ I2CIn("send_i2c_byte", "trstat")
    /\ IF i2c.n = 500
       THEN I2CStep(I2CDone(i2c))
       ELSE \E busy \in I2CPoll(i2c, "TRSTAT") :
               IF busy
               THEN I2CStep([i2c EXCEPT !.n = @ + 1])
               ELSE I2CStep([i2c EXCEPT !.at = "ack", !.n = 0])

\* send_i2c_byte checking ACKSTAT: reset_i2c_bus on NO_ACK, else return(0)
send_i2c_byte_ack ==
    /\ I2CIn("send_i2c_byte", "ack")
    /\ \E no_ack \in BOOLEAN :
          IF no_ack
          THEN I2CStep([i2c EXCEPT !.at = "no_ack", !.n = 0])
          ELSE I2CStep(I2CDone(i2c))

\* reset_i2c_bus, called by send_i2c_byte on NO_ACK: one poll of PEN
send_i2c_byte_reset ==
    /\ I2CIn("send_i2c_byte", "no_ack")
    /\ \E busy \in I2CPoll(i2c, "PEN") :
          IF busy /\ i2c.n + 1 <= 20
          THEN I2CStep([i2c EXCEPT !.n = @ + 1])
          ELSE I2CStep(I2CDone(i2c))

\* I2Cwrite or I2Cread returns to its caller
I2CReturn ==
    /\ pc = "i2c"
    /\ i2c.at = "return"
    /\ I2CStep([i2c EXCEPT !.at = "idle", !.returned = TRUE])

\* a call of I2Cwrite or I2Cread, on one of the peripherals
I2CCall ==
    /\ pc = "i2c"
    /\ i2c = I2CIdle
    /\ \E fn \in {"I2Cwrite", "I2Cread"}, stuck \in Peripherals :
          I2CStep([fn |-> fn, todo |-> I2CCalls(fn), at |-> "poll", n |-> 0,
                   stuck |-> stuck, last |-> "none", returned |-> FALSE])

\* the driver before a call
InitI2C ==
    /\ InitGlobals
    /\ config = Config("AILERON", NoReverse, 1500, 1000, 2000, FALSE)
    /\ build = "fixed_wing"
    /\ pc = "i2c"

NextI2C ==
    \/ I2CCall
    \/ i2c_start
    \/ i2c_restart
    \/ reset_i2c_bus
    \/ i2c_read_byte
    \/ send_i2c_byte_tbf
    \/ send_i2c_byte_trstat
    \/ send_i2c_byte_ack
    \/ send_i2c_byte_reset
    \/ I2CReturn

\* the driver runs on: the processor executes the next instruction
SpecI2C == InitI2C /\ [][NextI2C]_vars /\ WF_vars(NextI2C)

\* C22: I2Cread and I2Cwrite always return, whatever the status bits do,
\* and the transaction ends with reset_i2c_bus: every call eventually
\* returns, with reset_i2c_bus as the last function it ran
I2CAlwaysReturns == <>(i2c.returned /\ i2c.last = "reset_i2c_bus")

\* what the driver does keep: a call that has returned ran reset_i2c_bus
\* last, and no counted loop polls beyond its limit
I2CReturnedAfterReset ==
    /\ i2c.returned => i2c.last = "reset_i2c_bus"
    /\ i2c.n <= 2000
    /\ (pc = "i2c" /\ i2c.todo # << >> /\ Head(i2c.todo) # "i2c_read_byte")
          => i2c.n <= 500

\* what the driver does keep: on a peripheral that does clear TBF, every
\* call returns
I2CReturnsWhenTbfClears ==
    (i2c.fn # "none" /\ "TBF" \notin i2c.stuck) ~> i2c.returned

\* the call that never returns: send_i2c_byte waits for a TBF that stays
\* set
I2CWaitsForTbf ==
    /\ pc = "i2c"
    /\ "TBF" \in i2c.stuck
    /\ i2c.todo # << >>
    /\ Head(i2c.todo) = "send_i2c_byte"
    /\ i2c.at = "tbf"

====
